---- MODULE Spec2Model ----
(***************************************************************************)
(* tools/run_block.py: a FullBlock's transaction generator is executed,    *)
(* every spent coin whose puzzle is a CAT is kept, and the memo of its     *)
(* retirement CREATE_COIN is extracted.                                    *)
(*                                                                         *)
(* Python values are modelled as follows.                                  *)
(*   bytes            a sequence of numbers 0..255                         *)
(*   str              a sequence of one-character strings (hex text) or of *)
(*                    code points (decoded text)                           *)
(*   Optional[x]      <<>> for None, <<x>> otherwise                       *)
(*   as_python() data [t |-> "bytes" | "list" | "tuple", v |-> ...]        *)
(***************************************************************************)
EXTENDS Integers, Sequences, FiniteSets, TLC

\* Longest list of coin spends the execution engine returns.
MaxCoins == 2
\* Longest transactions_generator_ref_list.
MaxRefs == 2

-----------------------------------------------------------------------------
(* bytes and text                                                          *)

Rep(n, b) == [i \in 1..n |-> b]

HexDigits == <<"0", "1", "2", "3", "4", "5", "6", "7",
               "8", "9", "a", "b", "c", "d", "e", "f">>

\* bytes.hex(): two lowercase digits per byte, high nibble first.
hex(b) ==
    [i \in 1..(2 * Len(b)) |->
        IF i % 2 = 1 THEN HexDigits[(b[(i + 1) \div 2] \div 16) + 1]
                     ELSE HexDigits[(b[i \div 2] % 16) + 1]]

HexVal(c) == CHOOSE d \in 0..15 : HexDigits[d + 1] = c

\* SerializedProgram.fromhex(): the bytes a hex text spells.
fromhex(s) ==
    [i \in 1..(Len(s) \div 2) |-> 16 * HexVal(s[2 * i - 1]) + HexVal(s[2 * i])]

\* s[2:] of a Python str.
DropTwo(s) == SubSeq(s, 3, Len(s))

IsCont(b) == b >= 128 /\ b <= 191

\* How many bytes the UTF-8 sequence starting at b[1] takes; 0 when it is
\* malformed (stray continuation, overlong form, surrogate, > U+10FFFF,
\* truncated).
Utf8Width(b) ==
    LET n  == Len(b)
        b1 == b[1]
    IN  IF b1 < 128 THEN 1
        ELSE IF b1 >= 194 /\ b1 <= 223
            THEN IF n >= 2 /\ IsCont(b[2]) THEN 2 ELSE 0
        ELSE IF b1 >= 224 /\ b1 <= 239
            THEN IF /\ n >= 3
                    /\ IsCont(b[2])
                    /\ IsCont(b[3])
                    /\ (b1 = 224 => b[2] >= 160)
                    /\ (b1 = 237 => b[2] <= 159)
                 THEN 3 ELSE 0
        ELSE IF b1 >= 240 /\ b1 <= 244
            THEN IF /\ n >= 4
                    /\ IsCont(b[2])
                    /\ IsCont(b[3])
                    /\ IsCont(b[4])
                    /\ (b1 = 240 => b[2] >= 144)
                    /\ (b1 = 244 => b[2] <= 143)
                 THEN 4 ELSE 0
        ELSE 0

Utf8Point(b, w) ==
    IF w = 1 THEN b[1]
    ELSE IF w = 2 THEN (b[1] - 192) * 64 + (b[2] - 128)
    ELSE IF w = 3 THEN (b[1] - 224) * 4096 + (b[2] - 128) * 64 + (b[3] - 128)
    ELSE (b[1] - 240) * 262144 + (b[2] - 128) * 4096
             + (b[3] - 128) * 64 + (b[4] - 128)

RECURSIVE Utf8Points(_)
\* <<TRUE, code points>> or <<FALSE, <<>>>>.
Utf8Points(b) ==
    IF b = <<>> THEN <<TRUE, <<>>>>
    ELSE LET w == Utf8Width(b)
         IN  IF w = 0 THEN <<FALSE, <<>>>>
             ELSE LET rest == Utf8Points(SubSeq(b, w + 1, Len(b)))
                  IN  IF rest[1]
                      THEN <<TRUE, <<Utf8Point(b, w)>> \o rest[2]>>
                      ELSE <<FALSE, <<>>>>

\* errors="replace": never fails (each malformed byte becomes U+FFFD).
RECURSIVE utf8_decode_replace(_)
utf8_decode_replace(b) ==
    IF b = <<>> THEN [ok |-> TRUE, text |-> <<>>]
    ELSE LET w    == Utf8Width(b)
             step == IF w = 0 THEN 1 ELSE w
             cp   == IF w = 0 THEN 65533 ELSE Utf8Point(b, w)
             rest == utf8_decode_replace(SubSeq(b, step + 1, Len(b)))
         IN  [ok |-> TRUE, text |-> <<cp>> \o rest.text]

\* bytes.decode("utf-8"): the text, or ok = FALSE for UnicodeDecodeError.
utf8_decode(b) ==
    LET r == Utf8Points(b) IN [ok |-> r[1], text |-> r[2]]

-----------------------------------------------------------------------------
(* CLVM programs and conditions                                            *)

\* ConditionOpcode members met here, as their one-byte values, and .name.
AGG_SIG_ME == <<50>>
CREATE_COIN == <<51>>

OpcodeName(op) ==
    IF op = CREATE_COIN THEN "CREATE_COIN"
    ELSE IF op = AGG_SIG_ME THEN "AGG_SIG_ME"
    ELSE "UNKNOWN"

\* The cost ceiling of constants.MAX_BLOCK_COST_CLVM, and the ceiling that
\* Program.run applies when the caller names none.
MAX_BLOCK_COST_CLVM == "MAX_BLOCK_COST_CLVM"
INFINITE_COST == "INFINITE_COST"

\* The literal of line 120: 64 zero digits.
RETIREMENT_HEX == Rep(64, "0")

\* bytes(program) of an atom: the CLVM serialization. A one-byte atom below
\* 0x80 is its own encoding; any other atom follows a length prefix.
SerializeAtom(a) ==
    LET size == Len(a)
    IN  IF size = 0 THEN <<128>>
        ELSE IF size = 1 /\ a[1] <= 127 THEN a
        ELSE IF size < 64 THEN <<128 + size>> \o a
        ELSE <<192 + (size \div 256), size % 256>> \o a

\* as_python() values.
B(v) == [t |-> "bytes", v |-> v]
L(v) == [t |-> "list", v |-> v]
T(v) == [t |-> "tuple", v |-> v]

ConditionWithArgs(op, vars) == [opcode |-> op, vars |-> vars]

Zero32 == Rep(32, 0)
Zero31 == Rep(31, 0)
PH == Rep(32, 17)
AMOUNT == <<1>>
TAIL_A == <<171>> \o Rep(30, 0) \o <<205>>
TAIL_B == <<0>> \o Rep(30, 7) \o <<1>>
TAIL_SHORT == <<5>>

TXT_HI == <<104, 195, 169>>
TXT_A == <<97>>
TXT_B == <<98>>
NOT_UTF8 == <<104, 255>>

CC(memos) == <<B(CREATE_COIN), B(PH), B(AMOUNT), memos>>
CreateCoinGroup(n) ==
    [opcode |-> CREATE_COIN,
     cwas |-> [k \in 1..n |-> ConditionWithArgs(CREATE_COIN, <<PH, AMOUNT>>)]]

\* The coin spends a generator can hold: for each, what
\* get_puzzle_and_solution_for_coin and match_cat_puzzle find (matched, the
\* curried tail-hash atom), what puzzle.run(solution).as_python() returns
\* (output), and the condition groups the engine reports in the coin's NPC.
CoinSpends == <<
    \* 1: not a CAT, although its output carries a retirement memo
    [matched |-> FALSE, tail |-> TAIL_A,
     output |-> <<CC(L(<<B(Zero32), B(TXT_HI)>>))>>,
     conditions |-> <<CreateCoinGroup(1)>>],
    \* 2: a CAT that creates no coin
    [matched |-> TRUE, tail |-> TAIL_A,
     output |-> <<>>,
     conditions |-> <<>>],
    \* 3: a CAT retired with the memo "hé"
    [matched |-> TRUE, tail |-> TAIL_A,
     output |-> <<CC(L(<<B(Zero32), B(TXT_HI)>>))>>,
     conditions |-> <<CreateCoinGroup(1)>>],
    \* 4: conditions that do not qualify, then a retirement without memo,
    \*    then one with a memo
    [matched |-> TRUE, tail |-> TAIL_B,
     output |-> << <<B(AGG_SIG_ME), B(PH), B(AMOUNT),
                     L(<<B(Zero32), B(TXT_A)>>)>>,
                   <<B(CREATE_COIN), B(PH), B(AMOUNT)>>,
                   CC(B(TXT_A)),
                   CC(T(<<B(Zero32), B(TXT_A)>>)),
                   CC(L(<<B(Zero31), B(TXT_A)>>)),
                   CC(L(<<B(Zero32)>>)),
                   CC(L(<<B(Zero32), B(TXT_B)>>)) >>,
     conditions |-> <<[opcode |-> AGG_SIG_ME,
                       cwas |-> <<ConditionWithArgs(AGG_SIG_ME, <<PH, AMOUNT>>)>>],
                      CreateCoinGroup(6)>>],
    \* 5: a retirement memo that is not UTF-8
    [matched |-> TRUE, tail |-> TAIL_A,
     output |-> <<CC(L(<<B(Zero32), B(NOT_UTF8)>>))>>,
     conditions |-> <<CreateCoinGroup(1)>>],
    \* 6: a CAT whose curried tail is a one-byte atom; two retirements
    [matched |-> TRUE, tail |-> TAIL_SHORT,
     output |-> <<CC(L(<<B(Zero32), B(TXT_A)>>)),
                  CC(L(<<B(Zero32), B(TXT_B)>>))>>,
     conditions |-> <<CreateCoinGroup(2)>>],
    \* 7: an NPC whose CREATE_COIN group holds an AGG_SIG_ME condition
    [matched |-> TRUE, tail |-> TAIL_B,
     output |-> <<>>,
     conditions |-> <<[opcode |-> CREATE_COIN,
                       cwas |-> <<ConditionWithArgs(AGG_SIG_ME, <<PH>>)>>]>>],
    \* 8: a memo list whose first element is itself a list, then a
    \*    retirement with a memo
    [matched |-> TRUE, tail |-> TAIL_B,
     output |-> <<CC(L(<<L(<<B(TXT_A)>>), B(TXT_B)>>)),
                  CC(L(<<B(Zero32), B(TXT_A)>>))>>,
     conditions |-> <<CreateCoinGroup(2)>>]
>>

CoinIds == 1..Len(CoinSpends)

\* The 32-byte coin id and puzzle hash of spend k.
CoinName(k) == Rep(32, k)
PuzzleHash(k) == Rep(32, 100 + k)

\* The NPC the engine reports for spend k.
NPC(k) ==
    [coin_name |-> CoinName(k),
     puzzle_hash |-> PuzzleHash(k),
     conditions |-> CoinSpends[k].conditions]

\* get_puzzle_and_solution_for_coin: the spend with that coin id.
SpendOf(coin_name) ==
    CoinSpends[CHOOSE k \in CoinIds : CoinName(k) = coin_name]

-----------------------------------------------------------------------------
(* run_generator's loop body, as functions                                 *)

Scanned(raised, memo) == [raised |-> raised, memo |-> memo]

RECURSIVE ScanConditions(_, _)
\* The for loop of lines 112-126 from condition j on: the memo it leaves, or
\* the exception it raises.
ScanConditions(result, j) ==
    IF j > Len(result) THEN Scanned("None", <<>>)
    ELSE
      LET condition == result[j]
      IN  IF /\ condition[1].t = "bytes"
             /\ condition[1].v = CREATE_COIN
             /\ Len(condition) >= 4
          THEN
            IF condition[4].t # "list"
            THEN ScanConditions(result, j + 1)
            ELSE
              LET memos == condition[4].v
              IN  IF memos[1].t # "bytes"
                  THEN Scanned("AttributeError", <<>>)
                  ELSE IF hex(memos[1].v) = RETIREMENT_HEX
                  THEN
                    IF Len(memos) >= 2
                    THEN IF memos[2].t # "bytes"
                         THEN Scanned("AttributeError", <<>>)
                         ELSE LET d == utf8_decode(memos[2].v)
                              IN  IF d.ok THEN Scanned("None", d.text)
                                  ELSE Scanned("UnicodeDecodeError", <<>>)
                    ELSE Scanned("None", <<>>)
                  ELSE ScanConditions(result, j + 1)
          ELSE ScanConditions(result, j + 1)

\* bytes(tail_hash).hex()[2:]
tail_hash_text(tail) == DropTwo(hex(SerializeAtom(tail)))

CAT(tail_hash, memo, npc) == [tail_hash |-> tail_hash, memo |-> memo, npc |-> npc]

cat_list_prepend(list, cat) == <<cat>> \o list

\* cat_list.append(...)
cat_list_append(list, cat) == Append(list, cat)

-----------------------------------------------------------------------------
(* serialization                                                           *)

condition_with_args_to_dict(cwa) ==
    [condition_opcode |-> OpcodeName(cwa.opcode),
     arguments |-> [a \in 1..Len(cwa.vars) |-> hex(cwa.vars[a])]]

condition_list_unchecked(c) == TRUE

\* The assertion of condition_list_to_dict.
condition_list_assertion(c) ==
    \A k \in 1..Len(c.cwas) : c.opcode = c.cwas[k].opcode

condition_list_to_dict(c) ==
    [k \in 1..Len(c.cwas) |-> condition_with_args_to_dict(c.cwas[k])]

npc_to_dict(npc) ==
    [coin_name |-> hex(npc.coin_name),
     conditions |->
        [g \in 1..Len(npc.conditions) |->
            [condition_type |-> OpcodeName(npc.conditions[g].opcode),
             conditions |-> condition_list_to_dict(npc.conditions[g])]],
     puzzle_hash |-> hex(npc.puzzle_hash)]

cat_to_dict(cat) ==
    [tail_hash |-> cat.tail_hash, memo |-> cat.memo, npc |-> npc_to_dict(cat.npc)]

\* Whether every assertion met while serializing the list holds.
AssertionsHold(list) ==
    \A k \in 1..Len(list) :
        \A g \in 1..Len(list[k].npc.conditions) :
            condition_list_assertion(list[k].npc.conditions[g])

\* The document json.dumps writes: the list of the records' dicts.
json_dumps(list) == [k \in 1..Len(list) |-> cat_to_dict(list[k])]

-----------------------------------------------------------------------------
(* the program                                                             *)

VARIABLES
    entry,                  \* the function that was called
    transactions_generator, \* Optional: the block's generator (hex or program)
    ref_list,               \* transactions_generator_ref_list
    persisted,              \* the heights h for which a file "h.json" exists
    generator_args,         \* the GeneratorArgs loaded so far
    block_generator,        \* Optional: the BlockGenerator that was built
    calls,                  \* the collaborator calls made so far, in order
    npc_result,             \* Optional: what get_name_puzzle_conditions returned
    i,                      \* the position of the for loop in npc_list
    cat_list,               \* run_generator's list
    cat_list_json,          \* Optional: the serialized document
    ret,                    \* Optional: the list returned to the caller
    exc,                    \* the exception that ended the run
    stdout,                 \* the documents printed
    pc

vars == <<entry, transactions_generator, ref_list, persisted, generator_args,
          block_generator, calls, npc_result, i, cat_list, cat_list_json,
          ret, exc, stdout, pc>>

Heights == {1, 2}
RefLists == UNION {[1..n -> Heights] : n \in 0..MaxRefs}

\* The error codes the engine reports here.
EngineErrors == {5, 117}

\* A generator's hex text, and the hex text of the generator stored at a height.
GENERATOR_HEX == <<"f", "f", "0", "1", "8", "0">>
StoredGeneratorHex(height) == hex(<<255, height, 128>>)

\* The orders in which a generator spends coins: no coin is spent twice.
SpendOrders ==
    UNION {{s \in [1..n -> CoinIds] : \A a, b \in 1..n : a # b => s[a] # s[b]}
           : n \in 0..MaxCoins}

NoException == [type |-> "None", err |-> <<>>, height |-> <<>>]
Exception(type) == [type |-> type, err |-> <<>>, height |-> <<>>]

\* Err(code): the member of the Err enumeration with that value.
Err(code) == [enum |-> "Err", value |-> code]

Call(op, arg, max_cost) == [op |-> op, arg |-> arg, max_cost |-> max_cost]

NpcList == IF npc_result = <<>> THEN <<>> ELSE npc_result[1].npc_list

Init ==
    /\ entry \in {"run_full_block", "run_json_block_file", "run_generator_with_args"}
    /\ ref_list \in (IF entry = "run_generator_with_args" THEN {<<>>} ELSE RefLists)
    /\ persisted \in (IF entry = "run_generator_with_args" THEN {{}} ELSE SUBSET Heights)
    /\ transactions_generator \in
          (IF entry = "run_full_block"
           THEN {<<>>, <<fromhex(GENERATOR_HEX)>>}
           ELSE {<<>>, << <<>> >>, <<GENERATOR_HEX>>})
    /\ generator_args = <<>>
    /\ block_generator = <<>>
    /\ calls = <<>>
    /\ npc_result = <<>>
    /\ i = 0
    /\ cat_list = <<>>
    /\ cat_list_json = <<>>
    /\ ret = <<>>
    /\ exc = NoException
    /\ stdout = <<>>
    /\ pc = IF entry = "run_generator_with_args" THEN "run_generator_with_args"
            ELSE "ref_list_to_args"

RaiseAndPrint(e) ==
    /\ pc' = "failed"
    /\ exc' = e
    /\ stdout' = Append(stdout, json_dumps(cat_list))

\* An exception no function here catches ends the run; nothing is printed.
Raise(e) ==
    /\ pc' = "failed"
    /\ exc' = e
    /\ stdout' = stdout

\* run_generator or run_generator_with_args returns `list`: to
\* run_json_block_file, which goes on to serialize it, or to the caller.
Return(list) ==
    /\ cat_list' = list
    /\ IF entry = "run_json_block_file"
       THEN pc' = "dumps" /\ ret' = ret
       ELSE pc' = "done" /\ ret' = <<list>>

open_never_raises(height, files) == FALSE

\* open(f"{height}.json") raises FileNotFoundError.
open_raises(height, files) == height \notin files

\* ref_list_to_args, one height: the file is read and the GeneratorArg kept.
ref_list_to_args_load ==
    /\ pc = "ref_list_to_args"
    /\ Len(generator_args) < Len(ref_list)
    /\ LET height == ref_list[Len(generator_args) + 1]
       IN  /\ ~open_raises(height, persisted)
           /\ generator_args' = Append(generator_args,
                  [block_height |-> height,
                   program |-> fromhex(StoredGeneratorHex(height))])
           /\ calls' = Append(calls, Call("open", <<height>>, "n/a"))
    /\ UNCHANGED <<entry, transactions_generator, ref_list, persisted,
                   block_generator, npc_result, i, cat_list, cat_list_json,
                   ret, exc, stdout, pc>>

\* ref_list_to_args, one height: there is no file.
ref_list_to_args_missing ==
    /\ pc = "ref_list_to_args"
    /\ Len(generator_args) < Len(ref_list)
    /\ LET height == ref_list[Len(generator_args) + 1]
       IN  /\ open_raises(height, persisted)
           /\ Raise([type |-> "FileNotFoundError", err |-> <<>>,
                     height |-> <<height>>])
    /\ UNCHANGED <<entry, transactions_generator, ref_list, persisted,
                   generator_args, block_generator, calls, npc_result, i,
                   cat_list, cat_list_json, ret>>

\* ref_list_to_args returns the list to run_full_block or run_json_block_file.
ref_list_to_args_return ==
    /\ pc = "ref_list_to_args"
    /\ Len(generator_args) = Len(ref_list)
    /\ pc' = IF entry = "run_full_block" THEN "run_full_block"
             ELSE "run_generator_with_args"
    /\ UNCHANGED <<entry, transactions_generator, ref_list, persisted,
                   generator_args, block_generator, calls, npc_result, i,
                   cat_list, cat_list_json, ret, exc, stdout>>

\* run_full_block, after ref_list_to_args: the generator is null.
run_full_block_null ==
    /\ pc = "run_full_block"
    /\ transactions_generator = <<>>
    /\ Raise(Exception("RuntimeError"))
    /\ UNCHANGED <<entry, transactions_generator, ref_list, persisted,
                   generator_args, block_generator, calls, npc_result, i,
                   cat_list, cat_list_json, ret>>

\* run_full_block, after ref_list_to_args: the BlockGenerator is built.
run_full_block_generator ==
    /\ pc = "run_full_block"
    /\ transactions_generator # <<>>
    /\ block_generator' = <<[program |-> transactions_generator[1],
                             generator_refs |-> generator_args]>>
    /\ pc' = "run_generator"
    /\ UNCHANGED <<entry, transactions_generator, ref_list, persisted,
                   generator_args, calls, npc_result, i, cat_list,
                   cat_list_json, ret, exc, stdout>>

only_none(generator_program_hex) == generator_program_hex = <<>>

\* not generator_program_hex: None or the empty string.
generator_absent(generator_program_hex) ==
    IF generator_program_hex = <<>> THEN TRUE
    ELSE Len(generator_program_hex[1]) = 0

\* run_generator_with_args without a generator: the empty list.
run_generator_with_args_empty ==
    /\ pc = "run_generator_with_args"
    /\ generator_absent(transactions_generator)
    /\ Return(<<>>)
    /\ UNCHANGED <<entry, transactions_generator, ref_list, persisted,
                   generator_args, block_generator, calls, npc_result, i,
                   cat_list_json, exc, stdout>>

\* run_generator_with_args with a generator: the BlockGenerator is built.
run_generator_with_args_generator ==
    /\ pc = "run_generator_with_args"
    /\ ~generator_absent(transactions_generator)
    /\ block_generator' = <<[program |-> fromhex(transactions_generator[1]),
                             generator_refs |-> generator_args]>>
    /\ pc' = "run_generator"
    /\ UNCHANGED <<entry, transactions_generator, ref_list, persisted,
                   generator_args, calls, npc_result, i, cat_list,
                   cat_list_json, ret, exc, stdout>>

error_ignored(result) == FALSE

\* npc_result.error is not None
has_error(result) == result.error # <<>>

\* run_generator up to its loop: the engine runs the generator; an error in
\* its result is raised. The engine may report any order of spends; with an
\* error it reports at most one.
run_generator_execute ==
    /\ pc = "run_generator"
    /\ \E s \in SpendOrders, error \in {<<>>} \cup {<<e>> : e \in EngineErrors} :
          LET result == [error |-> error,
                         npc_list |-> [k \in 1..Len(s) |-> NPC(s[k])]]
          IN  /\ error # <<>> => Len(s) <= 1
              /\ npc_result' = <<result>>
              /\ calls' = Append(calls,
                     Call("get_name_puzzle_conditions", <<>>, MAX_BLOCK_COST_CLVM))
              /\ IF has_error(result)
                 THEN /\ Raise([type |-> "ConsensusError",
                                err |-> <<Err(result.error[1])>>,
                                height |-> <<>>])
                      /\ i' = i
                 ELSE /\ pc' = "for_npc"
                      /\ i' = 1
                      /\ UNCHANGED <<exc, stdout>>
    /\ UNCHANGED <<entry, transactions_generator, ref_list, persisted,
                   generator_args, block_generator, cat_list, cat_list_json,
                   ret>>

\* The calls of one pass of the loop up to match_cat_puzzle.
ResolveAndMatch(npc) ==
    <<Call("get_puzzle_and_solution_for_coin", npc.coin_name, MAX_BLOCK_COST_CLVM),
      Call("match_cat_puzzle", npc.coin_name, "n/a")>>

\* One pass of the loop for a coin whose puzzle is no CAT.
for_npc_unmatched ==
    /\ pc = "for_npc"
    /\ i <= Len(NpcList)
    /\ ~SpendOf(NpcList[i].coin_name).matched
    /\ calls' = calls \o ResolveAndMatch(NpcList[i])
    /\ i' = i + 1
    /\ UNCHANGED <<entry, transactions_generator, ref_list, persisted,
                   generator_args, block_generator, npc_result, cat_list,
                   cat_list_json, ret, exc, stdout, pc>>

\* One pass of the loop for a coin whose puzzle is a CAT: the puzzle is run
\* on its solution, the memo looked for, the record appended.
for_npc_matched ==
    /\ pc = "for_npc"
    /\ i <= Len(NpcList)
    /\ LET npc     == NpcList[i]
           spend   == SpendOf(npc.coin_name)
           scanned == ScanConditions(spend.output, 1)
       IN  /\ spend.matched
           /\ calls' = calls \o ResolveAndMatch(npc)
                          \o <<Call("run", npc.coin_name, INFINITE_COST)>>
           /\ IF scanned.raised # "None"
              THEN /\ Raise(Exception(scanned.raised))
                   /\ UNCHANGED <<i, cat_list>>
              ELSE /\ cat_list' = cat_list_append(cat_list,
                          CAT(tail_hash_text(spend.tail), scanned.memo, npc))
                   /\ i' = i + 1
                   /\ UNCHANGED <<exc, stdout, pc>>
    /\ UNCHANGED <<entry, transactions_generator, ref_list, persisted,
                   generator_args, block_generator, npc_result,
                   cat_list_json, ret>>

\* The loop is over: run_generator returns cat_list.
run_generator_return ==
    /\ pc = "for_npc"
    /\ i > Len(NpcList)
    /\ Return(cat_list)
    /\ UNCHANGED <<entry, transactions_generator, ref_list, persisted,
                   generator_args, block_generator, calls, npc_result, i,
                   cat_list_json, exc, stdout>>

\* run_json_block_file: json.dumps of the records' dicts, or the assertion
\* of condition_list_to_dict fails.
run_json_block_file_dumps ==
    /\ pc = "dumps"
    /\ IF AssertionsHold(cat_list)
       THEN /\ cat_list_json' = <<json_dumps(cat_list)>>
            /\ pc' = "print"
            /\ UNCHANGED <<exc, stdout>>
       ELSE /\ Raise(Exception("AssertionError"))
            /\ UNCHANGED cat_list_json
    /\ UNCHANGED <<entry, transactions_generator, ref_list, persisted,
                   generator_args, block_generator, calls, npc_result, i,
                   cat_list, ret>>

\* run_json_block_file: print(cat_list_json).
run_json_block_file_print ==
    /\ pc = "print"
    /\ stdout' = Append(stdout, cat_list_json[1])
    /\ pc' = "done"
    /\ UNCHANGED <<entry, transactions_generator, ref_list, persisted,
                   generator_args, block_generator, calls, npc_result, i,
                   cat_list, cat_list_json, ret, exc>>

Next ==
    \/ ref_list_to_args_load
    \/ ref_list_to_args_missing
    \/ ref_list_to_args_return
    \/ run_full_block_null
    \/ run_full_block_generator
    \/ run_generator_with_args_empty
    \/ run_generator_with_args_generator
    \/ run_generator_execute
    \/ for_npc_unmatched
    \/ for_npc_matched
    \/ run_generator_return
    \/ run_json_block_file_dumps
    \/ run_json_block_file_print

Spec == Init /\ [][Next]_vars

Terminated == pc \in {"done", "failed"}

-----------------------------------------------------------------------------
(* what the properties speak of                                            *)

EngineOps == {"get_name_puzzle_conditions", "get_puzzle_and_solution_for_coin", "run"}
CoinOps == {"get_puzzle_and_solution_for_coin", "match_cat_puzzle", "run"}

EngineInvoked == \E k \in 1..Len(calls) : calls[k].op \in EngineOps
GeneratorExecuted ==
    \E k \in 1..Len(calls) : calls[k].op = "get_name_puzzle_conditions"

IsCat(npc) == SpendOf(npc.coin_name).matched

\* run_generator has returned its list (to the caller, or to
\* run_json_block_file).
RunGeneratorReturned ==
    /\ npc_result # <<>>
    /\ \/ pc \in {"dumps", "print", "done"}
       \/ exc.type = "AssertionError"

\* A condition of a puzzle's output that is a CREATE_COIN whose fourth
\* element is a list starting with the 32-byte zero sentinel.
IsRetirement(condition) ==
    /\ condition[1].t = "bytes"
    /\ condition[1].v = CREATE_COIN
    /\ Len(condition) >= 4
    /\ condition[4].t = "list"
    /\ condition[4].v[1].t = "bytes"
    /\ condition[4].v[1].v = Zero32

Retirements(output) == {j \in 1..Len(output) : IsRetirement(output[j])}

FirstRetirement(output) ==
    CHOOSE j \in Retirements(output) : \A m \in Retirements(output) : j <= m

\* The memo the first retirement of an output states: known = FALSE when its
\* second element is no UTF-8 text.
StatedMemo(output) ==
    IF Retirements(output) = {} THEN [known |-> TRUE, text |-> <<>>]
    ELSE LET memos == output[FirstRetirement(output)][4].v
         IN  IF Len(memos) < 2 THEN [known |-> TRUE, text |-> <<>>]
             ELSE IF memos[2].t # "bytes" THEN [known |-> FALSE, text |-> <<>>]
             ELSE LET p == Utf8Points(memos[2].v)
                  IN  [known |-> p[1], text |-> p[2]]

\* The coin has a record in what the run handed out: the returned list or
\* the printed document.
Delivered(coin_name) ==
    \/ /\ ret # <<>>
       /\ \E c \in 1..Len(ret[1]) : ret[1][c].npc.coin_name = coin_name
    \/ /\ stdout # <<>>
       /\ \E c \in 1..Len(stdout[1]) :
              stdout[1][c].npc.coin_name = hex(coin_name)

NothingDelivered == ret = <<>> /\ stdout = <<>> /\ cat_list_json = <<>>

\* The puzzle of some coin of the loop was run and its first retirement
\* carries a second element that is no UTF-8 text.
RanUndecodable(k) ==
    /\ calls[k].op = "run"
    /\ LET output == SpendOf(calls[k].arg).output
       IN  /\ Retirements(output) # {}
           /\ LET memos == output[FirstRetirement(output)][4].v
              IN  /\ Len(memos) >= 2
                  /\ memos[2].t = "bytes"
                  /\ ~Utf8Points(memos[2].v)[1]

HasMismatch(group) ==
    \E k \in 1..Len(group.cwas) : group.cwas[k].opcode # group.opcode

-----------------------------------------------------------------------------
(* properties                                                              *)

\* C1: once the engine's result has an error, run_generator has raised
\* ConsensusError with Err of exactly that code, no coin was resolved,
\* matched or run, and no record or list exists, returned or printed.
C1_ErrorEndsTheRun ==
    (npc_result # <<>> /\ npc_result[1].error # <<>>) =>
        /\ pc = "failed"
        /\ exc.type = "ConsensusError"
        /\ exc.err = <<Err(npc_result[1].error[1])>>
        /\ \A k \in 1..Len(calls) : calls[k].op \notin CoinOps
        /\ cat_list = <<>>
        /\ NothingDelivered

C1_Witness ==
    /\ npc_result # <<>>
    /\ npc_result[1].error = <<117>>
    /\ Len(npc_result[1].npc_list) = 1
    /\ pc = "failed"

\* C2: when run_generator has returned, the NPCs of its records are the NPCs
\* of the engine's list whose puzzle is a CAT, each once, in the list's
\* order; the caller of run_full_block or run_generator_with_args gets that
\* list.
C2_OneRecordPerCatInOrder ==
    RunGeneratorReturned =>
        /\ [k \in 1..Len(cat_list) |-> cat_list[k].npc] = SelectSeq(NpcList, IsCat)
        /\ entry # "run_json_block_file" => ret = <<cat_list>>

C2_Witness ==
    /\ RunGeneratorReturned
    /\ Len(NpcList) = 2
    /\ Len(cat_list) = 2

\* C3: every matched coin whose puzzle was run has a record whose memo is
\* the one its first retirement states (empty when it has none or when no
\* condition is a retirement), whatever the other conditions are.
C3_MemoOfFirstRetirement ==
    \A k \in 1..Len(calls) :
        (calls[k].op = "run" /\ StatedMemo(SpendOf(calls[k].arg).output).known) =>
            \E c \in 1..Len(cat_list) :
                /\ cat_list[c].npc.coin_name = calls[k].arg
                /\ cat_list[c].memo = StatedMemo(SpendOf(calls[k].arg).output).text

\* C4 as stated: a memo that is no UTF-8 text costs only its own coin; the
\* run ends well and every other matching coin has its record handed out.
C4_DecodeFailureSkipsOneCoin ==
    (Terminated /\ \E k \in 1..Len(calls) : RanUndecodable(k)) =>
        /\ pc = "done"
        /\ \A n \in 1..Len(NpcList) :
              (IsCat(NpcList[n]) /\ StatedMemo(SpendOf(NpcList[n].coin_name).output).known)
                  => Delivered(NpcList[n].coin_name)

\* C4 amended: a memo that is no UTF-8 text ends the whole run with an
\* exception; no list is returned and nothing is serialized or printed, so
\* no coin of the run has a record handed out.
C4_DecodeFailureEndsTheRun ==
    (\E k \in 1..Len(calls) : RanUndecodable(k)) =>
        /\ pc = "failed"
        /\ exc.type \in {"UnicodeDecodeError", "AttributeError"}
        /\ NothingDelivered
        /\ \A n \in 1..Len(NpcList) : ~Delivered(NpcList[n].coin_name)

C4_Witness ==
    /\ exc.type = "UnicodeDecodeError"
    /\ Len(cat_list) = 1
    /\ Len(NpcList) = 2

\* C5: run_full_block on a null generator never invokes the engine and ends
\* in an exception; run_generator_with_args on None or "" never invokes the
\* engine and returns the empty list (which run_json_block_file prints).
C5_AbsentGenerator ==
    /\ (entry = "run_full_block" /\ transactions_generator = <<>>) =>
          /\ ~EngineInvoked
          /\ ret = <<>>
          /\ Terminated => (pc = "failed" /\ exc.type \in {"RuntimeError", "FileNotFoundError"})
          /\ (Terminated /\ \A h \in 1..Len(ref_list) : ref_list[h] \in persisted)
                 => exc.type = "RuntimeError"
    /\ (/\ entry # "run_full_block"
        /\ IF transactions_generator = <<>> THEN TRUE
           ELSE Len(transactions_generator[1]) = 0) =>
          /\ ~EngineInvoked
          /\ cat_list = <<>>
          /\ pc \in {"dumps", "print", "done"} =>
                IF entry = "run_generator_with_args"
                THEN pc = "done" /\ ret = << <<>> >>
                ELSE pc = "done" => stdout = << <<>> >>
          /\ entry = "run_generator_with_args" => pc # "failed"

C5_Witness ==
    /\ entry = "run_full_block"
    /\ transactions_generator = <<>>
    /\ exc.type = "RuntimeError"
    /\ Len(generator_args) = 2

\* C6: in run_full_block and run_json_block_file the generator is executed
\* only after one file per height of the ref list was opened, in the list's
\* order, with nothing else before; if a height has no file the engine is
\* never invoked and the run ends in FileNotFoundError for the first such
\* height.
C6_RefsLoadedBeforeExecution ==
    entry # "run_generator_with_args" =>
        /\ \A k \in 1..Len(calls) :
              calls[k].op = "get_name_puzzle_conditions" =>
                  /\ k = Len(ref_list) + 1
                  /\ \A j \in 1..(k - 1) : calls[j] = Call("open", <<ref_list[j]>>, "n/a")
                  /\ [j \in 1..Len(ref_list) |->
                         block_generator[1].generator_refs[j].block_height] = ref_list
        /\ (\E h \in 1..Len(ref_list) : ref_list[h] \notin persisted) =>
              /\ ~EngineInvoked
              /\ Terminated =>
                    /\ pc = "failed"
                    /\ exc.type = "FileNotFoundError"
                    /\ \E h \in 1..Len(ref_list) :
                          /\ exc.height = <<ref_list[h]>>
                          /\ ref_list[h] \notin persisted
                          /\ \A g \in 1..(h - 1) : ref_list[g] \in persisted

C6_Witness ==
    /\ entry = "run_json_block_file"
    /\ GeneratorExecuted
    /\ ref_list = <<2, 1>>

\* C7: run_json_block_file prints at most one document, and only when the
\* run is over without an exception, after every reference was loaded, the
\* generator executed without error (if there is one), every coin resolved
\* and matched, and the whole list serialized; a failed run printed nothing,
\* and no other entry point prints.
C7_PrintsOnlyAfterAll ==
    /\ pc = "failed" => stdout = <<>>
    /\ stdout # <<>> =>
          /\ Len(stdout) = 1
          /\ entry = "run_json_block_file"
          /\ pc = "done"
          /\ exc = NoException
          /\ Len(generator_args) = Len(ref_list)
          /\ npc_result # <<>> =>
                /\ npc_result[1].error = <<>>
                /\ i = Len(NpcList) + 1
                /\ \A n \in 1..Len(NpcList) :
                      \E k \in 1..Len(calls) :
                          calls[k] = Call("match_cat_puzzle", NpcList[n].coin_name, "n/a")
          /\ Len(stdout[1]) = Len(SelectSeq(NpcList, IsCat))
          /\ cat_list_json = <<stdout[1]>>

C7_Witness ==
    /\ entry = "run_json_block_file"
    /\ pc = "failed"
    /\ Len(cat_list) = 1
    /\ stdout = <<>>

\* C8: the tail_hash of every record is the hex text of the value of the
\* curried tail-hash atom, whole and unaltered, and all records' tail_hash
\* have one length.
C8_TailHashIsTheValue ==
    \A c \in 1..Len(cat_list) :
        /\ cat_list[c].tail_hash = hex(SpendOf(cat_list[c].npc.coin_name).tail)
        /\ \A d \in 1..Len(cat_list) :
              Len(cat_list[d].tail_hash) = Len(cat_list[c].tail_hash)

\* C9: every run of the engine (the generator, the resolution of a coin, the
\* run of a matched puzzle on its solution) is given the ceiling
\* MAX_BLOCK_COST_CLVM.
C9_EveryRunUnderTheCeiling ==
    \A k \in 1..Len(calls) :
        calls[k].op \in EngineOps => calls[k].max_cost = MAX_BLOCK_COST_CLVM

\* C10: in every document serialized or printed, each condition of each
\* group is named as the group is; and once run_json_block_file is past
\* serializing a list with a record whose NPC has a group holding a
\* condition of another opcode, it has failed with AssertionError and
\* printed nothing.
C10_GroupsAreUniform ==
    /\ \A d \in 1..Len(cat_list_json) :
          \A c \in 1..Len(cat_list_json[d]) :
              \A g \in 1..Len(cat_list_json[d][c].npc.conditions) :
                  LET group == cat_list_json[d][c].npc.conditions[g]
                  IN  \A n \in 1..Len(group.conditions) :
                          group.conditions[n].condition_opcode = group.condition_type
    /\ \A d \in 1..Len(stdout) : cat_list_json = <<stdout[d]>>
    /\ (/\ entry = "run_json_block_file"
        /\ RunGeneratorReturned
        /\ pc # "dumps"
        /\ \E c \in 1..Len(cat_list) :
              \E g \in 1..Len(cat_list[c].npc.conditions) :
                  HasMismatch(cat_list[c].npc.conditions[g])) =>
          /\ pc = "failed"
          /\ exc.type = "AssertionError"
          /\ stdout = <<>>
          /\ cat_list_json = <<>>

C10_Witness ==
    /\ exc.type = "AssertionError"
    /\ Len(cat_list) = 2

====
